---- MODULE Spec2Model ----
(***************************************************************************)
(* Excel-to-Word value transfer (run_value_into_word.py, gui_tk.py and the *)
(* gslide helpers).  A run loads a mapping list, opens the workbook, reads *)
(* one raw value per mapping record, closes the workbook, opens the        *)
(* document, formats and writes every record into its bookmark, saves and  *)
(* closes.                                                                 *)
(*                                                                         *)
(* Strings are sequences of one-character strings, so that str.strip(),    *)
(* str() and the emptiness tests of the code are computed, not assumed.    *)
(***************************************************************************)
EXTENDS Integers, Sequences, FiniteSets, TLC

VARIABLES
    mode,          \* "config" (--config), "manual" (--mapping) or "gui"
    config,        \* rows of the mapping workbook (pandas DataFrame)
    mapping_args,  \* args.mapping: the --mapping groups, each a list of strings
    pc,            \* position of the run
    mappings,      \* the loaded mapping list
    idx,           \* 1-based position of the running for loop
    raw_values,    \* dict (sheet, cell) -> raw value
    xl,            \* Excel application: "none", "running", "quit"
    wb,            \* workbook: "none", "open", "closed"
    word_app,      \* Word application: "none", "running", "quit"
    doc,           \* document object: "none", "open", "closed"
    bookmarks,     \* bookmark names of the open document
    content,       \* bookmark name -> text at that place of the open document
    disk,          \* the document file: [bookmarks, content]
    exc,           \* an exception is pending while the finally block runs
    log,           \* one entry per printed result line of the write loop
    trace,         \* history of the collaborator calls of the run
    gui,           \* the Tk application: worker threads, progress bar, the user's
                   \* document, the temporary directory, the message box shown
    helper         \* arguments and result of a call of a gslide helper

vars == <<mode, config, mapping_args, pc, mappings, idx, raw_values, xl, wb,
          word_app, doc, bookmarks, content, disk, exc, log, trace, gui, helper>>

----------------------------------------------------------------------------
(* Python values *)

None == [t |-> "none"]
NaN == [t |-> "nan"]
Str(s) == [t |-> "str", s |-> s]
PyInt(n) == [t |-> "int", n |-> n]

Whitespace == {" "}

Digit(d) ==
    CASE d = 0 -> "0" [] d = 1 -> "1" [] d = 2 -> "2" [] d = 3 -> "3"
      [] d = 4 -> "4" [] d = 5 -> "5" [] d = 6 -> "6" [] d = 7 -> "7"
      [] d = 8 -> "8" [] d = 9 -> "9"

RECURSIVE NatStr(_)
NatStr(n) == IF n < 10 THEN <<Digit(n)>> ELSE NatStr(n \div 10) \o <<Digit(n % 10)>>

\* bool(v)
Truthy(v) ==
    CASE v.t = "none" -> FALSE
      [] v.t = "nan" -> TRUE
      [] v.t = "str" -> v.s # <<>>
      [] v.t = "int" -> v.n # 0

\* str(v)
PyStr(v) ==
    CASE v.t = "none" -> <<"N", "o", "n", "e">>
      [] v.t = "nan" -> <<"n", "a", "n">>
      [] v.t = "str" -> v.s
      [] v.t = "int" -> IF v.n < 0 THEN <<"-">> \o NatStr(-v.n) ELSE NatStr(v.n)

\* v or ''
OrEmpty(v) == IF Truthy(v) THEN v ELSE Str(<<>>)

RECURSIVE LStrip(_)
LStrip(s) == IF s # <<>> /\ Head(s) \in Whitespace THEN LStrip(Tail(s)) ELSE s

RECURSIVE RStrip(_)
RStrip(s) ==
    IF s # <<>> /\ s[Len(s)] \in Whitespace THEN RStrip(SubSeq(s, 1, Len(s) - 1)) ELSE s

\* str.strip()
Strip(s) == RStrip(LStrip(s))

\* pd.notna(v)
NotNa(v) == v.t \notin {"nan", "none"}

----------------------------------------------------------------------------
(* Mapping loader *)

\* One iteration of the loop of load_mappings_from_excel: the tuples the row adds.
RowMappings(row) ==
    LET sheet == Strip(PyStr(OrEmpty(row.Sheet)))
        cell == Strip(PyStr(OrEmpty(row.Cell)))
        bookmark == Strip(PyStr(OrEmpty(row.Bookmark)))
        fmt == IF NotNa(row.Formatting) /\ Truthy(row.Formatting)
               THEN Str(Strip(PyStr(row.Formatting)))
               ELSE None
    IN  IF sheet # <<>> /\ cell # <<>> /\ bookmark # <<>>
        THEN <<(<<sheet, cell, bookmark, fmt>>)>>
        ELSE <<>>

RECURSIVE load_mappings_from_excel(_)
load_mappings_from_excel(df) ==
    IF df = <<>> THEN <<>>
    ELSE RowMappings(Head(df)) \o load_mappings_from_excel(Tail(df))

\* Mutant of ValidArity: only too short groups are refused
ValidArityAtLeast3(m) == Len(m) >= 3

\* The check of main's loop over args.mapping
ValidArity(m) == Len(m) \in {3, 4}

\* mappings.append((m[0], m[1], m[2], m[3] if len(m)==4 else None))
ManualMapping(m) == <<m[1], m[2], m[3], IF Len(m) = 4 THEN Str(m[4]) ELSE None>>

\* main's else branch: the list built when every group has a valid length
load_manual(ms) == [k \in 1..Len(ms) |-> ManualMapping(ms[k])]

----------------------------------------------------------------------------
(* Raw cell values and the two formatters *)

\* A float sgn * (w + c/100), sgn in {1, -1}, c in 0..99
PyFloat(sgn, w, c) == [t |-> "float", sgn |-> sgn, w |-> w, c |-> c]

Error == [t |-> "error"]

DigitVal(ch) ==
    CASE ch = "0" -> 0 [] ch = "1" -> 1 [] ch = "2" -> 2 [] ch = "3" -> 3
      [] ch = "4" -> 4 [] ch = "5" -> 5 [] ch = "6" -> 6 [] ch = "7" -> 7
      [] ch = "8" -> 8 [] ch = "9" -> 9

DigitChars == {"0", "1", "2", "3", "4", "5", "6", "7", "8", "9"}

AllDigits(s) == \A k \in 1..Len(s) : s[k] \in DigitChars

RECURSIVE DigitsVal(_)
DigitsVal(s) == IF s = <<>> THEN 0 ELSE 10 * DigitsVal(SubSeq(s, 1, Len(s) - 1)) + DigitVal(s[Len(s)])

\* Position of the first ch in s, 0 when there is none
IndexOf(s, ch) ==
    LET at == {k \in 1..Len(s) : s[k] = ch}
    IN  IF at = {} THEN 0 ELSE CHOOSE k \in at : \A j \in at : k <= j

\* float(text): decimal literals with an optional sign and at most two decimals
\* (exponents, "inf", "nan" and underscores are outside the modelled inputs)
ParseFloat(s0) ==
    LET s == Strip(s0)
        neg == s # <<>> /\ Head(s) = "-"
        body == IF s # <<>> /\ Head(s) \in {"-", "+"} THEN Tail(s) ELSE s
        dot == IndexOf(body, ".")
        ip == IF dot = 0 THEN body ELSE SubSeq(body, 1, dot - 1)
        fp == IF dot = 0 THEN <<>> ELSE SubSeq(body, dot + 1, Len(body))
    IN  IF body = <<>> \/ (ip = <<>> /\ fp = <<>>) \/ ~AllDigits(ip) \/ ~AllDigits(fp)
           \/ Len(fp) > 2 \/ Len(ip) > 9
        THEN Error
        ELSE PyFloat(IF neg THEN -1 ELSE 1, DigitsVal(ip),
                     IF Len(fp) = 1 THEN 10 * DigitsVal(fp) ELSE DigitsVal(fp))

\* float(value)
ToFloat(value) ==
    CASE value.t = "float" -> value
      [] value.t = "str" -> ParseFloat(value.s)
      [] OTHER -> Error

\* str(value) of a raw cell value
RawStr(value) ==
    CASE value.t = "float" ->
            (IF value.sgn < 0 THEN <<"-">> ELSE <<>>) \o NatStr(value.w) \o <<".">>
            \o (IF value.c % 10 = 0 THEN <<Digit(value.c \div 10)>>
                ELSE <<Digit(value.c \div 10), Digit(value.c % 10)>>)
      [] OTHER -> PyStr(value)

\* value is None or value == ""
IsBlank(value) == value.t = "none" \/ (value.t = "str" /\ value.s = <<>>)

\* num2words' English cards below one hundred
LowName(n) ==
    CASE n = 0 -> <<"z", "e", "r", "o">>
      [] n = 1 -> <<"o", "n", "e">>
      [] n = 2 -> <<"t", "w", "o">>
      [] n = 3 -> <<"t", "h", "r", "e", "e">>
      [] n = 4 -> <<"f", "o", "u", "r">>
      [] n = 5 -> <<"f", "i", "v", "e">>
      [] n = 6 -> <<"s", "i", "x">>
      [] n = 7 -> <<"s", "e", "v", "e", "n">>
      [] n = 8 -> <<"e", "i", "g", "h", "t">>
      [] n = 9 -> <<"n", "i", "n", "e">>
      [] n = 10 -> <<"t", "e", "n">>
      [] n = 11 -> <<"e", "l", "e", "v", "e", "n">>
      [] n = 12 -> <<"t", "w", "e", "l", "v", "e">>
      [] n = 13 -> <<"t", "h", "i", "r", "t", "e", "e", "n">>
      [] n = 14 -> <<"f", "o", "u", "r", "t", "e", "e", "n">>
      [] n = 15 -> <<"f", "i", "f", "t", "e", "e", "n">>
      [] n = 16 -> <<"s", "i", "x", "t", "e", "e", "n">>
      [] n = 17 -> <<"s", "e", "v", "e", "n", "t", "e", "e", "n">>
      [] n = 18 -> <<"e", "i", "g", "h", "t", "e", "e", "n">>
      [] n = 19 -> <<"n", "i", "n", "e", "t", "e", "e", "n">>

TensName(d) ==
    CASE d = 2 -> <<"t", "w", "e", "n", "t", "y">>
      [] d = 3 -> <<"t", "h", "i", "r", "t", "y">>
      [] d = 4 -> <<"f", "o", "r", "t", "y">>
      [] d = 5 -> <<"f", "i", "f", "t", "y">>
      [] d = 6 -> <<"s", "i", "x", "t", "y">>
      [] d = 7 -> <<"s", "e", "v", "e", "n", "t", "y">>
      [] d = 8 -> <<"e", "i", "g", "h", "t", "y">>
      [] d = 9 -> <<"n", "i", "n", "e", "t", "y">>

Upper(c) ==
    CASE c = "a" -> "A"
      [] c = "b" -> "B"
      [] c = "c" -> "C"
      [] c = "d" -> "D"
      [] c = "e" -> "E"
      [] c = "f" -> "F"
      [] c = "g" -> "G"
      [] c = "h" -> "H"
      [] c = "i" -> "I"
      [] c = "j" -> "J"
      [] c = "k" -> "K"
      [] c = "l" -> "L"
      [] c = "m" -> "M"
      [] c = "n" -> "N"
      [] c = "o" -> "O"
      [] c = "p" -> "P"
      [] c = "q" -> "Q"
      [] c = "r" -> "R"
      [] c = "s" -> "S"
      [] c = "t" -> "T"
      [] c = "u" -> "U"
      [] c = "v" -> "V"
      [] c = "w" -> "W"
      [] c = "x" -> "X"
      [] c = "y" -> "Y"
      [] c = "z" -> "Z"
      [] OTHER -> c

Letters == {"a", "b", "c", "d", "e", "f", "g", "h", "i", "j", "k", "l", "m", "n", "o", "p", "q", "r", "s", "t", "u", "v", "w", "x", "y", "z", "A", "B", "C", "D", "E", "F", "G", "H", "I", "J", "K", "L", "M", "N", "O", "P", "Q", "R", "S", "T", "U", "V", "W", "X", "Y", "Z"}

S_hundred == <<" ", "h", "u", "n", "d", "r", "e", "d">>

S_thousand == <<" ", "t", "h", "o", "u", "s", "a", "n", "d">>

S_million == <<" ", "m", "i", "l", "l", "i", "o", "n">>

S_billion == <<" ", "b", "i", "l", "l", "i", "o", "n">>

S_and == <<" ", "a", "n", "d", " ">>

S_comma == <<",", " ">>

S_minus == <<"m", "i", "n", "u", "s", " ">>

S_Dollars == <<" ", "D", "o", "l", "l", "a", "r", "s">>

S_NotAvailable == <<"(", "N", "o", "t", " ", "A", "v", "a", "i", "l", "a", "b", "l", "e", ")">>

S_None == <<"N", "o", "n", "e">>

S_sp_Thousand == <<" ", "T", "h", "o", "u", "s", "a", "n", "d">>

S_c_Thousand == <<",", " ", "T", "h", "o", "u", "s", "a", "n", "d">>

S_sp_Million == <<" ", "M", "i", "l", "l", "i", "o", "n">>

S_c_Million == <<",", " ", "M", "i", "l", "l", "i", "o", "n">>

S_sp_Billion == <<" ", "B", "i", "l", "l", "i", "o", "n">>

S_c_Billion == <<",", " ", "B", "i", "l", "l", "i", "o", "n">>

S_comma_sp_comma == <<",", " ", ",">>

S_comma1 == <<",">>

S_2sp == <<" ", " ">>

S_1sp == <<" ">>

\* num2words' English cardinal of 0 <= n < 100
Below100(n) ==
    IF n < 20 THEN LowName(n)
    ELSE IF n % 10 = 0 THEN TensName(n \div 10)
    ELSE TensName(n \div 10) \o <<"-">> \o LowName(n % 10)

\* merge() of a left part >= 100 with the rest r > 0: " and " below 100, ", " otherwise
Joiner(r) == IF r < 100 THEN S_and ELSE S_comma

Below1000(n) ==
    IF n < 100 THEN Below100(n)
    ELSE LowName(n \div 100) \o S_hundred
         \o (IF n % 100 = 0 THEN <<>> ELSE Joiner(n % 100) \o Below100(n % 100))

Below1e6(n) ==
    IF n < 1000 THEN Below1000(n)
    ELSE Below1000(n \div 1000) \o S_thousand
         \o (IF n % 1000 = 0 THEN <<>> ELSE Joiner(n % 1000) \o Below1000(n % 1000))

Below1e9(n) ==
    IF n < 1000000 THEN Below1e6(n)
    ELSE Below1000(n \div 1000000) \o S_million
         \o (IF n % 1000000 = 0 THEN <<>> ELSE Joiner(n % 1000000) \o Below1e6(n % 1000000))

Cardinal(n) ==
    IF n < 1000000000 THEN Below1e9(n)
    ELSE Below1000(n \div 1000000000) \o S_billion
         \o (IF n % 1000000000 = 0 THEN <<>>
             ELSE Joiner(n % 1000000000) \o Below1e9(n % 1000000000))

\* num2words(k, to='cardinal', lang='en') of the integer sgn * n
num2words(sgn, n) == (IF sgn < 0 /\ n > 0 THEN S_minus ELSE <<>>) \o Cardinal(n)

\* str.title() of a lower-case string
Title(s) ==
    [k \in 1..Len(s) |->
        IF s[k] \in Letters /\ (k = 1 \/ s[k - 1] \notin Letters) THEN Upper(s[k]) ELSE s[k]]

IsPrefix(p, s) == Len(p) <= Len(s) /\ SubSeq(s, 1, Len(p)) = p

\* str.replace(old, new), old non-empty: the matches are taken from the left and
\* do not overlap
Replace(s, old, new) ==
    LET hits == {k \in 1..(Len(s) - Len(old) + 1) : SubSeq(s, k, k + Len(old) - 1) = old}
        RECURSIVE From(_)
        From(i) ==
            LET rest == {k \in hits : k >= i}
            IN  IF rest = {} THEN SubSeq(s, i, Len(s))
                ELSE LET m == CHOOSE k \in rest : \A j \in rest : k <= j
                     IN  SubSeq(s, i, m - 1) \o new \o From(m + Len(old))
    IN  From(1)

\* The readability pass of format_number_as_words for num >= 1000000
AddCommas(words) ==
    LET a == Replace(words, S_sp_Thousand, S_c_Thousand)
        b == Replace(a, S_sp_Million, S_c_Million)
        c == Replace(b, S_sp_Billion, S_c_Billion)
        d == Replace(c, S_comma_sp_comma, S_comma1)
    IN  Replace(d, S_2sp, S_1sp)

format_number_as_words(value) ==
    IF IsBlank(value) THEN S_NotAvailable
    ELSE LET num == ToFloat(value) IN
         IF num = Error THEN <<"(">> \o RawStr(value) \o <<")">>
         ELSE LET words == Title(num2words(num.sgn, num.w)) \o S_Dollars
                  big == num.sgn > 0 /\ num.w >= 1000000
              IN  <<"(">> \o (IF big THEN AddCommas(words) ELSE words) \o <<")">>

\* Digits of n with a comma between groups of three
RECURSIVE Grouped(_)
Grouped(n) ==
    IF n < 1000 THEN NatStr(n)
    ELSE LET r == n % 1000 IN
         Grouped(n \div 1000) \o <<",">>
         \o <<Digit(r \div 100), Digit((r \div 10) % 10), Digit(r % 10)>>

\* Mutant of Rounded0: the decimals are cut off, as int(num) does
Rounded0Truncated(num) == num.w

\* Round half to even at zero decimals
Rounded0(num) ==
    IF num.c > 50 \/ (num.c = 50 /\ num.w % 2 = 1) THEN num.w + 1 ELSE num.w

Sign(num) == IF num.sgn < 0 THEN <<"-">> ELSE <<>>

Ok(s) == [ok |-> TRUE, s |-> s]
Raised == [ok |-> FALSE, s |-> <<>>]

\* format(num, spec) for the float presentation types of the modelled specs;
\* any other spec is an unknown format code (ValueError)
FormatField(num, spec) ==
    CASE spec = <<":", ",", ".", "0", "f">> -> Ok(Sign(num) \o Grouped(Rounded0(num)))
      [] spec = <<":", ".", "0", "f">> -> Ok(Sign(num) \o NatStr(Rounded0(num)))
      [] spec = <<":", ",", ".", "2", "f">> ->
            Ok(Sign(num) \o Grouped(num.w) \o <<".", Digit(num.c \div 10), Digit(num.c % 10)>>)
      [] spec = <<":", ".", "2", "f">> ->
            Ok(Sign(num) \o NatStr(num.w) \o <<".", Digit(num.c \div 10), Digit(num.c % 10)>>)
      [] spec = <<>> -> Ok(RawStr(num))
      [] OTHER -> Raised

\* fmt_spec.format(num): literal text around at most one replacement field
StrFormat(fmt, num) ==
    LET open == IndexOf(fmt, "{")
        close == IndexOf(fmt, "}")
    IN  IF open = 0 /\ close = 0 THEN Ok(fmt)
        ELSE IF open = 0 \/ close < open THEN Raised
        ELSE LET pre == SubSeq(fmt, 1, open - 1)
                 spec == SubSeq(fmt, open + 1, close - 1)
                 post == SubSeq(fmt, close + 1, Len(fmt))
                 field == FormatField(num, spec)
             IN  IF IndexOf(post, "{") # 0 \/ IndexOf(post, "}") # 0 \/ ~field.ok
                 THEN Raised
                 ELSE Ok(pre \o field.s \o post)

\* Mutant of format_number: the except clause returns the placeholder
format_numberNoFallback(value, fmt_spec) ==
    IF IsBlank(value) THEN S_None
    ELSE LET num == ToFloat(value) IN
         IF num = Error THEN S_None
         ELSE LET out == IF Truthy(fmt_spec) THEN StrFormat(fmt_spec.s, num)
                         ELSE Ok(Sign(num) \o Grouped(Rounded0(num)))
              IN  IF out.ok THEN out.s ELSE S_None

format_number(value, fmt_spec) ==
    IF IsBlank(value) THEN S_None
    ELSE LET num == ToFloat(value) IN
         IF num = Error THEN RawStr(value)
         ELSE LET out == IF Truthy(fmt_spec) THEN StrFormat(fmt_spec.s, num)
                         ELSE Ok(Sign(num) \o Grouped(Rounded0(num)))
              IN  IF out.ok THEN out.s ELSE RawStr(value)

\* Mutant of format_type: only a missing format selects the words
format_typeNoneOnly(fmt) == IF fmt = None THEN "text" ELSE "numeric"

\* The branch of the write loop: "text" (words) when fmt is None or "", "numeric"
\* otherwise
format_type(fmt) == IF fmt = None \/ fmt = Str(<<>>) THEN "text" ELSE "numeric"

\* formatted of the write loop
Formatted(raw, fmt) ==
    IF format_type(fmt) = "text" THEN format_number_as_words(raw) ELSE format_number(raw, fmt)

----------------------------------------------------------------------------
(* The files of a run *)

S1 == <<"S", "1">>
A1 == <<"A", "1">>
F22 == <<"F", "2", "2">>
Z9 == <<"Z", "9">>
Rent == <<"R", "e", "n", "t">>
Total == <<"T", "o", "t", "a", "l">>
Gone == <<"G", "o", "n", "e">>
CommaFmt == <<"{", ":", ",", ".", "0", "f", "}">>

MoneyFmt == <<"{", ":", ",", ".", "2", "f", "}">>
UnclosedFmt == <<"{", ":", ",", ".", "0", "f">>
abc == <<"a", "b", "c">>

\* Column B of the workbook, from B1 down: an empty cell, text cells and numbers
ValueTable ==
    << None, Str(<<>>), Str(abc), Str(<<"1", "2", ".", "5">>), Str(<<" ">>),
       PyFloat(1, 0, 0), PyFloat(1, 1234567, 0), PyFloat(1, 999999, 50),
       PyFloat(1, 1000000, 0), PyFloat(-1, 6800000, 0), PyFloat(1, 1234567890, 0),
       PyFloat(1, 2001001000, 0), PyFloat(1, 1500, 50), PyFloat(1, 1234, 56) >>

\* The address of the k-th cell of column B
ValueCell(k) == <<"B">> \o NatStr(k)

ValueCells == {ValueCell(k) : k \in 1..Len(ValueTable)}

\* The workbook: the cells that can be read; every other address makes the read raise
HasCell(sheet, cell) == sheet = S1 /\ cell \in {A1, F22} \cup ValueCells

CellValue(sheet, cell) ==
    IF cell = A1 THEN PyFloat(1, 6800000, 0)
    ELSE IF cell = F22 THEN PyFloat(1, 123456, 0)
    ELSE ValueTable[DigitsVal(Tail(cell))]

\* The document file before the run: its bookmarks and the text at each
DocBookmarks == {Rent, Total}
Placeholder == <<"?">>
InitialDisk == [bookmarks |-> DocBookmarks, content |-> [b \in DocBookmarks |-> Placeholder]]

\* Bound: the longest mapping list of a run
MaxRecords == 2

\* Rows of a mapping workbook for a run
RunRows ==
    { [Sheet |-> Str(S1), Cell |-> Str(A1), Bookmark |-> Str(Rent), Formatting |-> NaN],
      [Sheet |-> Str(S1), Cell |-> Str(F22), Bookmark |-> Str(Rent), Formatting |-> Str(CommaFmt)],
      [Sheet |-> Str(S1), Cell |-> Str(Z9), Bookmark |-> Str(Gone), Formatting |-> NaN] }

RECURSIVE SeqsUpTo(_, _)
SeqsUpTo(S, n) ==
    IF n = 0 THEN {<<>>}
    ELSE LET shorter == SeqsUpTo(S, n - 1)
         IN  shorter \cup {Append(s, x) : s \in {t \in shorter : Len(t) = n - 1}, x \in S}

\* A row typed on the command line: sheet cell bookmark [format]
RowAsGroup(row) ==
    <<row.Sheet.s, row.Cell.s, row.Bookmark.s>>
    \o (IF row.Formatting.t = "str" THEN <<row.Formatting.s>> ELSE <<>>)

\* --mapping groups with a wrong number of words
BadGroups == {<<S1, A1>>, <<S1, A1, Rent, CommaFmt, Rent>>}

RunGroups == {RowAsGroup(r) : r \in RunRows} \cup BadGroups

max_retries == 3

----------------------------------------------------------------------------
(* The run: main() of run_value_into_word.py and App._run_script of gui_tk.py *)

\* A collaborator call of the run: the call, the record it is for (0: none) and how
\* it ended
Ev(e, i, r) == [e |-> e, i |-> i, r |-> r]

N == Len(mappings)

\* No Tk application
GuiOff == [t |-> "off"]

\* No helper call
NoHelper == [t |-> "none"]

\* The files and applications before anything has run
Untouched ==
    /\ mappings = <<>>
    /\ idx = 0
    /\ raw_values = <<>>
    /\ xl = "none"
    /\ wb = "none"
    /\ word_app = "none"
    /\ doc = "none"
    /\ bookmarks = {}
    /\ content = <<>>
    /\ disk = InitialDisk
    /\ exc = FALSE
    /\ log = <<>>
    /\ trace = <<>>

\* The state before main() has done anything
Idle ==
    /\ gui = GuiOff
    /\ helper = NoHelper
    /\ pc = "load"
    /\ Untouched

Init ==
    /\ mode \in {"config", "manual", "gui"}
    /\ config \in IF mode = "manual" THEN {<<>>} ELSE SeqsUpTo(RunRows, MaxRecords)
    /\ mapping_args \in IF mode = "manual" THEN SeqsUpTo(RunGroups, MaxRecords) \ {<<>>}
                        ELSE {<<>>}
    /\ Idle

\* Loading the mapping list: pd.read_excel may fail; a --mapping group of a wrong
\* length ends the process in parser.error
Load ==
    /\ pc = "load"
    /\ \/ /\ mode \in {"config", "gui"}
          /\ \E readable \in BOOLEAN :
                IF readable
                THEN mappings' = load_mappings_from_excel(config) /\ pc' = "open_excel"
                ELSE mappings' = mappings /\ pc' = "fatal"
       \/ /\ mode = "manual"
          /\ IF \A k \in 1..Len(mapping_args) : ValidArity(mapping_args[k])
             THEN mappings' = load_manual(mapping_args) /\ pc' = "open_excel"
             ELSE mappings' = mappings /\ pc' = "fatal"
    /\ UNCHANGED <<gui, helper, mode, config, mapping_args, idx, raw_values, xl, wb, word_app, doc,
                   bookmarks, content, disk, exc, log, trace>>

\* How _open_excel can end: Dispatch raises; the file is not there; Workbooks.Open
\* raises; the workbook is open
OpenExcelResults == {"dispatch_fails", "file_missing", "open_fails", "ok"}

\* Mutant of AfterOpenExcel: the open failure is swallowed and the run goes on
AfterOpenExcelSwallowed(r) ==
    IF N = 0 THEN "close_excel" ELSE "read"

\* Where the run goes after _open_excel: the call stands outside every try, so what
\* it raises ends the run
AfterOpenExcel(r) ==
    IF r = "ok" THEN (IF N = 0 THEN "close_excel" ELSE "read") ELSE "fatal"

\* _open_excel: every failure is logged and raised again, with the application
\* left as it is
OpenExcel ==
    /\ pc = "open_excel"
    /\ \E r \in OpenExcelResults :
          /\ xl' = IF r = "dispatch_fails" THEN "none" ELSE "running"
          /\ wb' = IF r = "ok" THEN "open" ELSE "none"
          /\ pc' = AfterOpenExcel(r)
          /\ trace' = Append(trace, Ev("open_excel", 0, r))
    /\ idx' = 1
    /\ UNCHANGED <<gui, helper, mode, config, mapping_args, mappings, raw_values, word_app, doc,
                   bookmarks, content, disk, exc, log>>

\* Mutant of DictSet: the first value of a key stays (dict.setdefault)
DictSetDefault(d, key, val) == d @@ (key :> val)

\* dict assignment d[key] = val
DictSet(d, key, val) == (key :> val) @@ d

\* dict.get(key)
DictGet(d, key) == IF key \in DOMAIN d THEN d[key] ELSE None

\* The read attempts of one record: main tries once, the GUI up to max_retries times
Attempts == IF mode = "gui" THEN max_retries ELSE 1

\* Where the run goes after the reads of record idx; raised says that every attempt
\* raised. The except clauses turn that into val = None and the loop goes on
AfterRead(raised) == IF idx = N THEN "close_excel" ELSE "read"

\* One iteration of the read loop. failed is the number of attempts that raised
\* before the value came (all of them: the value is None)
ReadCell ==
    /\ pc = "read"
    /\ LET sheet == mappings[idx][1]
           cell == mappings[idx][2]
       IN  \E failed \in 0..Attempts :
              /\ (failed < Attempts) => HasCell(sheet, cell)
              /\ LET got == failed < Attempts
                     val == IF got THEN CellValue(sheet, cell) ELSE None
                 IN  /\ raw_values' = DictSet(raw_values, <<sheet, cell>>, val)
                     /\ trace' = trace \o [k \in 1..failed |-> Ev("read", idx, "raised")]
                                       \o (IF got THEN <<Ev("read", idx, "ok")>> ELSE <<>>)
                     /\ pc' = AfterRead(~got)
    /\ idx' = idx + 1
    /\ UNCHANGED <<gui, helper, mode, config, mapping_args, mappings, xl, wb, word_app, doc,
                   bookmarks, content, disk, exc, log>>

\* _safe_close: wb.Close(SaveChanges=False), what it raises is dropped; a workbook
\* is gone with its application
CloseWorkbook(closed, quit) == IF closed \/ quit THEN "closed" ELSE "close_failed"

\* Mutant of QuitExcel: _safe_close closes the workbook and forgets xl.Quit()
QuitExcelMissing(quit) == "running"

\* _safe_close: xl.Quit(), what it raises is dropped
QuitExcel(quit) == IF quit THEN "quit" ELSE "quit_failed"

\* _safe_close(xl, wb) in the finally of the read loop
CloseExcel ==
    /\ pc = "close_excel"
    /\ \E closed \in BOOLEAN, quit \in BOOLEAN :
          /\ wb' = CloseWorkbook(closed, quit)
          /\ xl' = QuitExcel(quit)
          /\ trace' = Append(trace, Ev("close_excel", 0, IF quit THEN "ok" ELSE "raised"))
    /\ pc' = "open_word"
    /\ UNCHANGED <<gui, helper, mode, config, mapping_args, mappings, idx, raw_values, word_app, doc,
                   bookmarks, content, disk, exc, log>>

\* _open_word(path): a Word session on the document, or an error and no session
open_word(ok) ==
    IF ok THEN [word_app |-> "running", doc |-> "open",
                bookmarks |-> disk.bookmarks, content |-> disk.content]
    ELSE [word_app |-> word_app, doc |-> doc, bookmarks |-> bookmarks, content |-> content]

\* word_app, doc = _open_word(...): outside the try, so what it raises ends the run
OpenWord ==
    /\ pc = "open_word"
    /\ \E ok \in BOOLEAN :
          LET s == open_word(ok)
          IN  /\ word_app' = s.word_app
              /\ doc' = s.doc
              /\ bookmarks' = s.bookmarks
              /\ content' = s.content
              /\ pc' = IF ok THEN (IF N = 0 THEN "save" ELSE "write") ELSE "fatal"
              /\ trace' = Append(trace, Ev("open_word", 0, IF ok THEN "ok" ELSE "raised"))
    /\ idx' = 1
    /\ UNCHANGED <<gui, helper, mode, config, mapping_args, mappings, raw_values, xl, wb, disk, exc, log>>

\* The three calls of a bookmark write; fails names the call that raises ("none": no
\* call does): doc.Bookmarks(bookmark).Range for a bookmark the document does not
\* have, rng.Text = formatted, doc.Bookmarks.Add(bookmark, rng). Setting the text of
\* a bookmark's range removes the bookmark, which Bookmarks.Add puts back
WriteFailures == {"none", "lookup", "text", "add"}

\* Mutant of Printed: the except clause passes and the success line follows the try
PrintedAlwaysWrote(fails) == "Wrote"

\* The line printed for a record: the try's last statement or the except clause
Printed(fails) == IF fails = "none" THEN "Wrote" ELSE "Error"

\* rng.Text = formatted: replacing the text of a bookmark's range deletes the bookmark
TextSet(bms, bookmark) == bms \ {bookmark}

\* Mutant of BookmarksAdd: the bookmark is not put back after the text was set
BookmarksAddMissing(bms, bookmark) == bms

\* doc.Bookmarks.Add(bookmark, rng)
BookmarksAdd(bms, bookmark) == bms \cup {bookmark}

\* Mutant of LoopBodyCalls: doc.Save() indented into the loop
LoopBodySaving(i, fails) == <<Ev("write", i, fails), Ev("save", 0, "ok")>>

\* The document calls of one iteration of the write loop
LoopBodyCalls(i, fails) == <<Ev("write", i, fails)>>

\* Mutant of AfterWrite: no try around the write, what it raises leaves the loop
\* for the finally
AfterWriteRaising(fails) ==
    IF fails # "none" THEN "close_doc" ELSE IF idx = N THEN "save" ELSE "write"

\* Where the run goes after the write of record idx: the except clause prints and
\* the loop goes on; doc.Save() follows the loop
AfterWrite(fails) == IF idx = N THEN "save" ELSE "write"

WriteBookmark ==
    /\ pc = "write"
    /\ LET sheet == mappings[idx][1]
           cell == mappings[idx][2]
           bookmark == mappings[idx][3]
           fmt == mappings[idx][4]
           raw == DictGet(raw_values, <<sheet, cell>>)
           formatted == Formatted(raw, fmt)
       IN  \E fails \in WriteFailures :
              /\ (bookmark \notin bookmarks) <=> (fails = "lookup")
              /\ content' = IF fails \in {"none", "add"}
                            THEN DictSet(content, bookmark, formatted) ELSE content
              /\ bookmarks' = CASE fails = "none" ->
                                     BookmarksAdd(TextSet(bookmarks, bookmark), bookmark)
                                 [] fails = "add" -> TextSet(bookmarks, bookmark)
                                 [] OTHER -> bookmarks
              /\ log' = Append(log, [kind |-> Printed(fails), bookmark |-> bookmark,
                                     format_type |-> format_type(fmt),
                                     formatted |-> formatted])
              /\ trace' = trace \o LoopBodyCalls(idx, fails)
              /\ pc' = AfterWrite(fails)
    /\ idx' = idx + 1
    /\ UNCHANGED <<gui, helper, mode, config, mapping_args, mappings, raw_values, xl, wb, word_app, doc,
                   disk, exc>>

\* Mutant of DiskAfterSave: the document is closed without having been saved
DiskAfterSaveNone(ok) == disk

\* The file after doc.Save() / doc.SaveAs2(doc_path): the open document when the
\* call returned
DiskAfterSave(ok) == IF ok THEN [bookmarks |-> bookmarks, content |-> content] ELSE disk

\* doc.Save() after the loop; what it raises passes through the finally
Save ==
    /\ pc = "save"
    /\ \E ok \in BOOLEAN :
          /\ disk' = DiskAfterSave(ok)
          /\ exc' = ~ok
          /\ trace' = Append(trace, Ev("save", 0, IF ok THEN "ok" ELSE "raised"))
    /\ pc' = "close_doc"
    /\ UNCHANGED <<gui, helper, mode, config, mapping_args, mappings, idx, raw_values, xl, wb, word_app,
                   doc, bookmarks, content, log>>

\* finally: doc.Close(False); when it raises, the rest of the finally is skipped
CloseDoc ==
    /\ pc = "close_doc"
    /\ \E ok \in BOOLEAN :
          /\ doc' = IF ok THEN "closed" ELSE "close_failed"
          /\ pc' = IF ok THEN "quit_word" ELSE "fatal"
          /\ exc' = (exc \/ ~ok)
          /\ trace' = Append(trace, Ev("close_doc", 0, IF ok THEN "ok" ELSE "raised"))
    /\ UNCHANGED <<gui, helper, mode, config, mapping_args, mappings, idx, raw_values, xl, wb, word_app,
                   bookmarks, content, disk, log>>

\* finally: word_app.Quit()
QuitWord ==
    /\ pc = "quit_word"
    /\ \E ok \in BOOLEAN :
          /\ word_app' = IF ok THEN "quit" ELSE "quit_failed"
          /\ pc' = IF ok /\ ~exc THEN "done" ELSE "fatal"
          /\ exc' = (exc \/ ~ok)
          /\ trace' = Append(trace, Ev("quit_word", 0, IF ok THEN "ok" ELSE "raised"))
    /\ UNCHANGED <<gui, helper, mode, config, mapping_args, mappings, idx, raw_values, xl, wb, doc,
                   bookmarks, content, disk, log>>

Next ==
    \/ Load
    \/ OpenExcel
    \/ ReadCell
    \/ CloseExcel
    \/ OpenWord
    \/ WriteBookmark
    \/ Save
    \/ CloseDoc
    \/ QuitWord

Spec == Init /\ [][Next]_vars

----------------------------------------------------------------------------
(* The loader alone, over mapping tables with blank and padded cells *)

\* Bound: the longest mapping table given to the loader
MaxRows == 2

PaddedS1 == <<" ", "S", "1">>
PaddedA1 == <<"A", "1", " ">>
PaddedTotal == <<" ", "T", "o", "t", "a", "l">>
Blanks == <<" ">>

LoadRows ==
    [Sheet : {NaN, Str(Blanks), Str(PaddedS1)},
     Cell : {NaN, Str(PaddedA1)},
     Bookmark : {Str(Blanks), Str(Rent), Str(PaddedTotal)},
     Formatting : {NaN, Str(Blanks), Str(CommaFmt)}]

\* The rows that can be typed as a --mapping group: no blank (NaN) key cell
TypedRows == {r \in LoadRows : r.Sheet.t = "str" /\ r.Cell.t = "str" /\ r.Bookmark.t = "str"}

LoadGroups == {RowAsGroup(r) : r \in TypedRows} \cup BadGroups

InitLoad ==
    /\ mode \in {"config", "manual"}
    /\ config \in IF mode = "manual" THEN {<<>>} ELSE SeqsUpTo(LoadRows, MaxRows)
    /\ mapping_args \in IF mode = "manual" THEN SeqsUpTo(LoadGroups, MaxRows) \ {<<>>}
                        ELSE {<<>>}
    /\ Idle

SpecLoad == InitLoad /\ [][Load]_vars

----------------------------------------------------------------------------
(* Runs of one record over the values of column B and the format cells *)

LiteralFmt == <<"N", "o", "n", "e">>

\* What the Formatting cell of a row can hold
FormatCells ==
    {NaN, Str(<<>>), Str(Blanks), Str(CommaFmt), Str(MoneyFmt), Str(UnclosedFmt),
     Str(LiteralFmt)}

ValueRows ==
    [Sheet : {Str(S1)},
     Cell : {Str(c) : c \in ValueCells \cup {F22}},
     Bookmark : {Str(Total)},
     Formatting : FormatCells]

InitValues ==
    /\ mode \in {"config", "manual"}
    /\ config \in IF mode = "manual" THEN {<<>>} ELSE {<<r>> : r \in ValueRows}
    /\ mapping_args \in IF mode = "manual" THEN {<<RowAsGroup(r)>> : r \in ValueRows}
                        ELSE {<<>>}
    /\ Idle

SpecValues == InitValues /\ [][Next]_vars

----------------------------------------------------------------------------
(* get_value and write_to_bookmark, called one after the other as
   test_value_into_word does *)

\* get_value(path, sheet, cell): the open, the read and _safe_close in the finally.
\* xl and wb are still None in the finally when _open_excel raised
GetValue ==
    /\ pc = "get_value"
    /\ \E r \in OpenExcelResults, raised \in BOOLEAN, closed \in BOOLEAN, quit \in BOOLEAN :
          LET got == r = "ok" /\ ~raised
          IN  /\ (r = "ok" /\ ~HasCell(helper.sheet, helper.cell)) => raised
              /\ xl' = CASE r = "dispatch_fails" -> "none"
                          [] r = "ok" -> QuitExcel(quit)
                          [] OTHER -> "running"
              /\ wb' = IF r = "ok" THEN CloseWorkbook(closed, quit) ELSE "none"
              /\ helper' = [helper EXCEPT !.value =
                                IF got THEN CellValue(helper.sheet, helper.cell) ELSE None]
              /\ pc' = IF got THEN "wtb_open" ELSE "fatal"
              /\ trace' = trace \o <<Ev("open_excel", 0, r)>>
                                \o (IF r = "ok"
                                    THEN <<Ev("read", 0, IF raised THEN "raised" ELSE "ok"),
                                           Ev("close_excel", 0, IF quit THEN "ok" ELSE "raised")>>
                                    ELSE <<>>)
    /\ UNCHANGED <<gui, mode, config, mapping_args, mappings, idx, raw_values, word_app, doc,
                   bookmarks, content, disk, exc, log>>

\* How Dispatch("Word.Application") and Documents.Open can end
OpenWordResults == {"dispatch_fails", "open_fails", "ok"}

\* write_to_bookmark up to its try: both calls stand outside it
WtbOpen ==
    /\ pc = "wtb_open"
    /\ \E r \in OpenWordResults :
          /\ word_app' = IF r = "dispatch_fails" THEN "none" ELSE "running"
          /\ doc' = IF r = "ok" THEN "open" ELSE "none"
          /\ bookmarks' = IF r = "ok" THEN disk.bookmarks ELSE bookmarks
          /\ content' = IF r = "ok" THEN disk.content ELSE content
          /\ pc' = IF r = "ok" THEN "wtb_write" ELSE "fatal"
          /\ trace' = Append(trace, Ev("open_word", 0, IF r = "ok" THEN "ok" ELSE "raised"))
    /\ UNCHANGED <<gui, helper, mode, config, mapping_args, mappings, idx, raw_values, xl, wb,
                   disk, exc, log>>

\* write_to_bookmark: the Exists test and the three calls of the write; text is
\* written as str(text)
WtbWrite ==
    /\ pc = "wtb_write"
    /\ LET bookmark == helper.bookmark
           text == RawStr(helper.value)
       IN  \E fails \in WriteFailures :
              /\ (bookmark \notin bookmarks) <=> (fails = "lookup")
              /\ content' = IF fails \in {"none", "add"}
                            THEN DictSet(content, bookmark, text) ELSE content
              /\ bookmarks' = CASE fails = "none" ->
                                     BookmarksAdd(TextSet(bookmarks, bookmark), bookmark)
                                 [] fails = "add" -> TextSet(bookmarks, bookmark)
                                 [] OTHER -> bookmarks
              /\ exc' = (fails # "none")
              /\ pc' = IF fails = "none" THEN "wtb_save" ELSE "close_doc"
              /\ trace' = Append(trace, Ev("write", 0, fails))
    /\ UNCHANGED <<gui, helper, mode, config, mapping_args, mappings, idx, raw_values, xl, wb,
                   word_app, doc, disk, log>>

\* doc.SaveAs2(doc_path) when readonly_template, doc.Save() otherwise
WtbSave ==
    /\ pc = "wtb_save"
    /\ \E ok \in BOOLEAN :
          /\ disk' = DiskAfterSave(ok)
          /\ exc' = ~ok
          /\ trace' = Append(trace, Ev(IF helper.readonly_template THEN "save_as" ELSE "save",
                                       0, IF ok THEN "ok" ELSE "raised"))
    /\ pc' = "close_doc"
    /\ UNCHANGED <<gui, helper, mode, config, mapping_args, mappings, idx, raw_values, xl, wb,
                   word_app, doc, bookmarks, content, log>>

\* The calls of the test: a cell of the workbook (or an address it does not have), a
\* bookmark the document has or has not, both values of readonly_template
InitBookmark ==
    /\ mode = "helper"
    /\ config = <<>>
    /\ mapping_args = <<>>
    /\ gui = GuiOff
    /\ helper \in [t : {"write_to_bookmark"},
                    sheet : {S1},
                    cell : ValueCells \cup {F22, Z9},
                    bookmark : {Rent, Gone},
                    readonly_template : BOOLEAN,
                    value : {None}]
    /\ pc = "get_value"
    /\ Untouched

NextBookmark ==
    \/ GetValue
    \/ WtbOpen
    \/ WtbWrite
    \/ WtbSave
    \/ CloseDoc
    \/ QuitWord

SpecBookmark == InitBookmark /\ [][NextBookmark]_vars

----------------------------------------------------------------------------
(* copy_range_as_emf *)

\* Bound: the largest retry_count a call is made with (the default is 3)
MaxRetryCount == 3

\* How the part of an attempt between the open and the close can end: a call raised;
\* the clipboard got no image within the timeout; the image was grabbed
CopyOutcomes == {"raised", "timeout", "image"}

\* How the saving of the image can end: as EMF; as PNG after the EMF save raised;
\* both saves raised
SaveOutcomes == {"emf", "png", "none"}

\* The start of an attempt: xl, wb = _open_excel(path). When it raises, the except
\* clause calls _safe_close(None, None) and the loop goes on. idx counts the
\* attempts begun, helper.running the Excel applications started and never told to
\* quit
EmfOpen ==
    /\ pc = "emf_attempt"
    /\ idx < helper.retry_count
    /\ \E r \in OpenExcelResults :
          /\ xl' = IF r = "ok" THEN "running" ELSE "none"
          /\ wb' = IF r = "ok" THEN "open" ELSE "none"
          /\ helper' = [helper EXCEPT !.running =
                                IF r = "dispatch_fails" THEN @ ELSE @ + 1]
          /\ pc' = IF r = "ok" THEN "emf_copy" ELSE "emf_attempt"
          /\ trace' = Append(trace, Ev("open_excel", idx + 1, r))
    /\ idx' = idx + 1
    /\ UNCHANGED <<gui, mode, config, mapping_args, mappings, raw_values, word_app, doc,
                   bookmarks, content, disk, exc, log>>

\* The rest of an attempt up to _safe_close(xl, wb): after the polling loop, or in
\* the except clause when a call raised
EmfCopy ==
    /\ pc = "emf_copy"
    /\ \E outcome \in CopyOutcomes, closed \in BOOLEAN, quit \in BOOLEAN :
          /\ xl' = QuitExcel(quit)
          /\ wb' = CloseWorkbook(closed, quit)
          /\ helper' = [helper EXCEPT !.running = @ - 1]
          /\ pc' = IF outcome = "image" THEN "emf_save" ELSE "emf_attempt"
          /\ trace' = trace \o <<Ev("copy", idx, outcome),
                                  Ev("close_excel", idx, IF quit THEN "ok" ELSE "raised")>>
    /\ UNCHANGED <<gui, mode, config, mapping_args, mappings, idx, raw_values, word_app, doc,
                   bookmarks, content, disk, exc, log>>

\* img.save(tmp_path, "EMF"), in its except clause img.save(png_path, "PNG"), and
\* the next attempt when that raised too
EmfSave ==
    /\ pc = "emf_save"
    /\ \E r \in SaveOutcomes :
          /\ helper' = [helper EXCEPT !.result =
                                CASE r = "emf" -> ".emf" [] r = "png" -> ".png" [] OTHER -> @]
          /\ pc' = IF r = "none" THEN "emf_attempt" ELSE "emf_returned"
          /\ trace' = Append(trace, Ev("save_image", idx, r))
    /\ UNCHANGED <<gui, mode, config, mapping_args, mappings, idx, raw_values, xl, wb,
                   word_app, doc, bookmarks, content, disk, exc, log>>

\* After the last attempt: raise RuntimeError
EmfRaise ==
    /\ pc = "emf_attempt"
    /\ idx >= helper.retry_count
    /\ helper' = [helper EXCEPT !.result = "RuntimeError"]
    /\ pc' = "emf_raised"
    /\ UNCHANGED <<gui, mode, config, mapping_args, mappings, idx, raw_values, xl, wb,
                   word_app, doc, bookmarks, content, disk, exc, log, trace>>

InitEmf ==
    /\ mode = "helper"
    /\ config = <<>>
    /\ mapping_args = <<>>
    /\ gui = GuiOff
    /\ helper \in [t : {"copy_range_as_emf"},
                    retry_count : 0..MaxRetryCount,
                    running : {0},
                    result : {"none"}]
    /\ pc = "emf_attempt"
    /\ Untouched

NextEmf ==
    \/ EmfOpen
    \/ EmfCopy
    \/ EmfSave
    \/ EmfRaise

SpecEmf == InitEmf /\ [][NextEmf]_vars

----------------------------------------------------------------------------
(* The Tk application of gui_tk.py: App.start and the worker App._run_script.
   The first worker is followed statement by statement: it runs the steps of the
   run above on copies in a temporary directory (disk is the working copy of the
   document, gui.original the user's document).  Workers started while it runs are
   counted in gui.threads. *)

\* Bound: how often Run is pressed
MaxPresses == 2

\* The first worker is between its start and its end
WorkerAlive == pc \notin {"gui_idle", "gui_exit"}

\* App.start: with both paths filled in, the progress bar is started and a worker
\* thread is created; nothing looks at a worker that is already running
Start ==
    /\ gui.t = "tk"
    /\ pc # "gui_exit"
    /\ gui.presses < MaxPresses
    /\ \E filled \in BOOLEAN :
          IF filled
          THEN /\ gui' = [gui EXCEPT !.presses = @ + 1, !.threads = @ + 1,
                                     !.progress = "running"]
               /\ pc' = IF pc = "gui_idle" THEN "gui_check" ELSE pc
          ELSE /\ gui' = [gui EXCEPT !.presses = @ + 1, !.message = "Missing file"]
               /\ pc' = pc
    /\ UNCHANGED <<helper, mode, config, mapping_args, mappings, idx, raw_values, xl, wb,
                   word_app, doc, bookmarks, content, disk, exc, log, trace>>

\* What the checks at the top of _run_script can find missing
Missing == {"excel", "word", "config", "none"}

\* _run_script: the os.path.exists tests and get_config_path(); each failure shows
\* an error box, stops the progress bar and returns
GuiCheck ==
    /\ pc = "gui_check"
    /\ \E m \in Missing :
          IF m = "none"
          THEN gui' = gui /\ pc' = "gui_copy"
          ELSE /\ gui' = [gui EXCEPT !.message = "Error", !.progress = "stopped",
                                     !.threads = @ - 1]
               /\ pc' = "gui_exit"
    /\ UNCHANGED <<helper, mode, config, mapping_args, mappings, idx, raw_values, xl, wb,
                   word_app, doc, bookmarks, content, disk, exc, log, trace>>

\* tempfile.mkdtemp() and the three shutil.copy2 calls inside the try
GuiCopy ==
    /\ pc = "gui_copy"
    /\ \E ok \in BOOLEAN :
          /\ gui' = [gui EXCEPT !.temp_dir = "exists"]
          /\ disk' = IF ok THEN gui.original ELSE disk
          /\ pc' = IF ok THEN "load" ELSE "gui_except"
    /\ UNCHANGED <<helper, mode, config, mapping_args, mappings, idx, raw_values, xl, wb,
                   word_app, doc, bookmarks, content, exc, log, trace>>

\* A file whose copy broke off after the destination was opened for writing
Truncated == [bookmarks |-> {}, content |-> <<>>]

\* After the finally of the write loop: shutil.copy2(local_word, word_path) and the
\* "Done" box. A copy that raises has not touched the destination or has left it
\* truncated
GuiCopyBack ==
    /\ gui.t = "tk"
    /\ pc = "done"
    /\ \E ok \in BOOLEAN, touched \in BOOLEAN :
          /\ ok => touched
          /\ gui' = IF ok
                    THEN [gui EXCEPT !.original = disk,
                                     !.message = "All bookmarks updated successfully!"]
                    ELSE [gui EXCEPT !.original = IF touched THEN Truncated ELSE @]
          /\ pc' = IF ok THEN "gui_finally" ELSE "gui_except"
          /\ trace' = Append(trace, Ev("copy_back", 0, IF ok THEN "ok" ELSE "raised"))
    /\ UNCHANGED <<helper, mode, config, mapping_args, mappings, idx, raw_values, xl, wb,
                   word_app, doc, bookmarks, content, disk, exc, log>>

\* except Exception: the error box
GuiExcept ==
    /\ gui.t = "tk"
    /\ pc \in {"fatal", "gui_except"}
    /\ gui' = [gui EXCEPT !.message = "Error"]
    /\ pc' = "gui_finally"
    /\ UNCHANGED <<helper, mode, config, mapping_args, mappings, idx, raw_values, xl, wb,
                   word_app, doc, bookmarks, content, disk, exc, log, trace>>

\* finally: CoUninitialize, shutil.rmtree(temp_dir) with its error printed as a
\* warning, self.progress.stop()
GuiFinally ==
    /\ pc = "gui_finally"
    /\ \E removed \in BOOLEAN :
          gui' = [gui EXCEPT !.temp_dir = IF removed THEN "removed" ELSE "left",
                             !.progress = "stopped",
                             !.threads = @ - 1]
    /\ pc' = "gui_exit"
    /\ UNCHANGED <<helper, mode, config, mapping_args, mappings, idx, raw_values, xl, wb,
                   word_app, doc, bookmarks, content, disk, exc, log, trace>>

\* A worker started by a later press of Run comes to its end
OtherWorkerExit ==
    /\ gui.t = "tk"
    /\ gui.threads > (IF WorkerAlive THEN 1 ELSE 0)
    /\ gui' = [gui EXCEPT !.threads = @ - 1, !.progress = "stopped"]
    /\ UNCHANGED <<helper, mode, config, mapping_args, pc, mappings, idx, raw_values, xl, wb,
                   word_app, doc, bookmarks, content, disk, exc, log, trace>>

InitGui ==
    /\ mode = "gui"
    /\ config \in SeqsUpTo(RunRows, MaxRecords)
    /\ mapping_args = <<>>
    /\ gui = [t |-> "tk", presses |-> 0, threads |-> 0, progress |-> "idle",
              original |-> InitialDisk, temp_dir |-> "none", message |-> "none"]
    /\ helper = NoHelper
    /\ pc = "gui_idle"
    /\ Untouched

NextGui ==
    \/ Start
    \/ GuiCheck
    \/ GuiCopy
    \/ Next
    \/ GuiCopyBack
    \/ GuiExcept
    \/ GuiFinally
    \/ OtherWorkerExit

SpecGui == InitGui /\ [][NextGui]_vars

----------------------------------------------------------------------------
(* Properties of a run *)

\* Positions of the calls e in the history
Pos(e) == {k \in 1..Len(trace) : trace[k].e = e}

\* Positions of the calls e made for record i
PosOf(e, i) == {k \in Pos(e) : trace[k].i = i}

WordOpened == \E k \in Pos("open_word") : trace[k].r = "ok"

\* C1: in a run whose workbook and document both opened, a read or write failure
\* never stops the batch: every record, in order, gets its read and its write
\* attempt, and the save is attempted after the last record.
C1_BatchNeverStops ==
    WordOpened =>
        LET written == IF pc = "write" THEN idx - 1 ELSE N
        IN  /\ \A i \in 1..N : PosOf("read", i) # {}
            /\ \A j, k \in Pos("read") : j < k => trace[j].i <= trace[k].i
            /\ \A i \in 1..written : Cardinality(PosOf("write", i)) = 1
            /\ \A j, k \in Pos("write") : j < k => trace[j].i < trace[k].i
            /\ pc \in {"write", "save", "close_doc", "quit_word", "done", "fatal"}
            /\ pc \notin {"write", "save"} =>
                  \E s \in Pos("save") : \A k \in Pos("write") : k < s

\* A finished run of two records in which the first record's read raised and its
\* write raised, and the save was made
C1_Witness ==
    /\ pc = "done"
    /\ N = 2
    /\ \E k \in PosOf("read", 1) : trace[k].r = "raised"
    /\ \E k \in PosOf("write", 1) : trace[k].r # "none"
    /\ PosOf("write", 2) # {}
    /\ Pos("save") # {}

\* C2: the document is saved exactly once per run, after the write attempt of the
\* last record and before the document session is closed; no save happens between
\* two records.
C2_SavedOnce ==
    /\ Cardinality(Pos("save")) <= 1
    /\ \A s \in Pos("save") :
          /\ \A i \in 1..N : \E k \in PosOf("write", i) : k < s
          /\ \A k \in Pos("write") : k < s
          /\ \A k \in Pos("close_doc") \cup Pos("quit_word") : s < k
    /\ Pos("close_doc") # {} => Cardinality(Pos("save")) = 1
    /\ pc = "done" => \E s \in Pos("save") : trace[s].r = "ok"

\* A finished run of two records whose one save changed the file
C2_Witness ==
    /\ pc = "done"
    /\ N = 2
    /\ Cardinality(Pos("save")) = 1
    /\ disk # InitialDisk

\* C3: the workbook session and the document session are never open at the same
\* time: the workbook is opened once, every read happens while it is open, and
\* _safe_close has run (also after a read that raised) before the document is
\* opened.  An application whose Quit was called counts as released, also when the
\* call raised and _safe_close dropped the error.
C3_SessionsDisjoint ==
    /\ ~(xl = "running" /\ word_app = "running")
    /\ Cardinality(Pos("open_excel")) <= 1
    /\ \A k \in Pos("read") :
          /\ \E o \in Pos("open_excel") : o < k /\ trace[o].r = "ok"
          /\ \A c \in Pos("close_excel") : k < c
    /\ \A w \in Pos("open_word") : \E c \in Pos("close_excel") : c < w

\* The document is open after a run of reads of which one raised
C3_Witness ==
    /\ word_app = "running"
    /\ doc = "open"
    /\ xl = "quit"
    /\ \E k \in Pos("read") : trace[k].r = "raised"

\* C4: every Excel application that was started is released on every exit path,
\* also when the workbook file is missing or cannot be opened.
C4_ExcelReleasedOnExit == pc \in {"fatal", "done"} => xl # "running"

\* C5: every Word application that was started is released on every exit path:
\* it is quit also when the save raises or closing the document raises.
C5_WordReleasedOnExit == pc \in {"fatal", "done"} => word_app # "running"

OpenFailed == \E k \in Pos("open_excel") \cup Pos("open_word") : trace[k].r # "ok"

\* C6: when the workbook or the document cannot be opened the run ends in a fatal
\* error and nothing was written: no bookmark of the document changed, no save.
C6_OpenFailureWritesNothing ==
    OpenFailed =>
        /\ pc = "fatal"
        /\ disk = InitialDisk
        /\ Pos("write") = {}
        /\ Pos("save") = {}
        /\ log = <<>>

\* The document could not be opened after the reads of two records
C6_Witness ==
    /\ N = 2
    /\ PosOf("read", 2) # {}
    /\ \E k \in Pos("open_word") : trace[k].r = "raised"

\* C7: a record whose bookmark is not in the document gets an outcome of its own
\* (SkippedMissingAnchor), different from the outcome of a write call that raised
\* (Failed) and from Written; in both cases the run goes on and still calls save.
C7_MissingAnchorDistinct ==
    /\ \A j, k \in 1..Len(log) :
          (/\ \E e \in PosOf("write", j) : trace[e].r = "lookup"
           /\ \E e \in PosOf("write", k) : trace[e].r \in {"text", "add"})
          => log[j].kind # log[k].kind
    /\ \A j \in 1..Len(log) :
          (\E e \in PosOf("write", j) : trace[e].r # "none") => log[j].kind # "Wrote"
    /\ pc = "done" => Pos("save") # {}

\* C9: a --mapping group whose length is not 3 or 4 ends the run in a fatal error
\* before the workbook or the document is opened; a group of length 3 gets format
\* None and a group of length 4 keeps its fourth word as format.
C9_ManualArity ==
    mode = "manual" =>
        IF \E k \in 1..Len(mapping_args) : Len(mapping_args[k]) \notin {3, 4}
        THEN /\ pc \in {"load", "fatal"}
             /\ trace = <<>>
             /\ xl = "none" /\ word_app = "none"
             /\ mappings = <<>>
        ELSE pc # "load" =>
             /\ Len(mappings) = Len(mapping_args)
             /\ \A k \in 1..Len(mapping_args) :
                   LET m == mapping_args[k]
                   IN  /\ mappings[k][1] = m[1] /\ mappings[k][2] = m[2] /\ mappings[k][3] = m[3]
                       /\ Len(m) = 3 => mappings[k][4] = None
                       /\ Len(m) = 4 => mappings[k][4] = Str(m[4])

\* The run ended at a group of five words that follows a valid group
C9_Witness ==
    /\ mode = "manual"
    /\ pc = "fatal"
    /\ Len(mapping_args) = 2
    /\ Len(mapping_args[1]) = 4
    /\ Len(mapping_args[2]) = 5

----------------------------------------------------------------------------
(* Properties of the loader *)

\* A blank table cell, or text that is empty after trimming
BlankCell(v) == v.t = "nan" \/ (v.t = "str" /\ Strip(v.s) = <<>>)

AllKeysPresent(row) ==
    ~BlankCell(row.Sheet) /\ ~BlankCell(row.Cell) /\ ~BlankCell(row.Bookmark)

\* C8: the table loader retains a row exactly when its sheet, cell and bookmark are
\* all non-empty after trimming (a blank table cell counts as empty), and keeps the
\* retained rows in their input order.
C8_LoaderRetention ==
    (mode = "config" /\ pc = "open_excel") =>
        LET kept == SelectSeq(config, AllKeysPresent)
        IN  /\ Len(mappings) = Len(kept)
            /\ \A k \in 1..Len(kept) :
                  /\ mappings[k][1] = Strip(kept[k].Sheet.s)
                  /\ mappings[k][2] = Strip(kept[k].Cell.s)
                  /\ mappings[k][3] = Strip(kept[k].Bookmark.s)

\* The table row of a --mapping group
GroupAsRow(g) ==
    [Sheet |-> Str(g[1]), Cell |-> Str(g[2]), Bookmark |-> Str(g[3]),
     Formatting |-> IF Len(g) = 4 THEN Str(g[4]) ELSE NaN]

\* C10: the same rows given as a mapping table and as --mapping groups give the
\* same record sequence: same trimming, same blank-field filtering, same order.
C10_SameNormalization ==
    (mode = "manual" /\ pc = "open_excel") =>
        mappings = load_mappings_from_excel(
                       [k \in 1..Len(mapping_args) |-> GroupAsRow(mapping_args[k])])

----------------------------------------------------------------------------
(* Properties of the values written *)

\* The raw value record i is formatted from
RecRaw(i) == DictGet(raw_values, <<mappings[i][1], mappings[i][2]>>)

\* Every read of record i raised
ReadFailed(i) == PosOf("read", i) # {} /\ \A k \in PosOf("read", i) : trace[k].r = "raised"

SavedOk == \E s \in Pos("save") : trace[s].r = "ok"

\* C11: bookmark writes happen in mapping order, so when several records name the
\* same bookmark, the text at that bookmark (in the open document, and in the file
\* once saved) is the formatted value of the last of them whose write succeeded.
C11_LastWriteWins ==
    /\ \A j, k \in Pos("write") : j < k => trace[j].i < trace[k].i
    /\ \A b \in bookmarks :
          LET wrote == {i \in 1..Len(log) : log[i].bookmark = b /\ log[i].kind = "Wrote"}
          IN  wrote # {} =>
                 LET last == CHOOSE i \in wrote : \A j \in wrote : j <= i
                 IN  /\ content[b] = log[last].formatted
                     /\ SavedOk => disk.content[b] = log[last].formatted

\* Two records wrote different texts to the same bookmark and the file holds the
\* second
C11_Witness ==
    /\ pc = "done"
    /\ Len(log) = 2
    /\ log[1].bookmark = Rent /\ log[2].bookmark = Rent
    /\ log[1].kind = "Wrote" /\ log[2].kind = "Wrote"
    /\ log[1].formatted # log[2].formatted
    /\ disk.content[Rent] = log[2].formatted

\* C12: a record is formatted by format_number exactly when its format is present
\* and non-empty, and by format_number_as_words otherwise; a blank, empty or
\* whitespace-only Formatting cell of the table selects format_number_as_words.
C12_FormatSelection ==
    \A i \in 1..Len(log) :
        LET fmt == mappings[i][4]
            present == IF fmt = None THEN FALSE ELSE fmt.s # <<>>
        IN  /\ log[i].format_type = (IF present THEN "numeric" ELSE "text")
            /\ log[i].formatted = (IF present THEN format_number(RecRaw(i), fmt)
                                   ELSE format_number_as_words(RecRaw(i)))
            /\ (mode = "config" /\ BlankCell(config[i].Formatting))
                  => log[i].format_type = "text"

\* A table row with a whitespace-only Formatting cell was written in words
C12_Witness ==
    /\ mode = "config"
    /\ Len(log) = 1
    /\ config[1].Formatting = Str(Blanks)
    /\ log[1].kind = "Wrote"
    /\ log[1].format_type = "text"
    /\ RecRaw(1).t = "float"

S_SixMillionExample == <<"(", "S", "i", "x", " ", "M", "i", "l", "l", "i", "o", "n", ",", " ", "E", "i", "g", "h", "t", " ", "H", "u", "n", "d", "r", "e", "d", " ", "T", "h", "o", "u", "s", "a", "n", "d", " ", "D", "o", "l", "l", "a", "r", "s", ")">>

\* C13: the value 6800000 in words is exactly
\* "(Six Million, Eight Hundred Thousand Dollars)", and a record (S1, A1, Rent, None)
\* read as 6800000 writes that text into Rent.
C13_WordsOfExample ==
    \A i \in 1..Len(log) :
        (mappings[i] = <<S1, A1, Rent, None>> /\ RecRaw(i) = PyFloat(1, 6800000, 0)
         /\ log[i].kind = "Wrote")
        => /\ log[i].formatted = S_SixMillionExample
           /\ content[Rent] = S_SixMillionExample

ScaleWords == {Tail(S_sp_Thousand), Tail(S_sp_Million), Tail(S_sp_Billion)}

\* Positions where w occurs in s
Occurs(s, w) == {k \in 1..(Len(s) - Len(w) + 1) : SubSeq(s, k, k + Len(w) - 1) = w}

CommaBeforeScaleWords(s) ==
    \A w \in ScaleWords : \A k \in Occurs(s, w) : k > 2 /\ s[k - 2] = "," /\ s[k - 1] = " "

NoDoubledComma(s) == Occurs(s, <<",", ",">>) = {} /\ Occurs(s, S_comma_sp_comma) = {}

Commas(s) == Cardinality({k \in 1..Len(s) : s[k] = ","})

\* C14: for a number of magnitude at least 1,000,000 (billions included) the words
\* have a comma before each of Thousand, Million and Billion and no doubled comma;
\* below 1,000,000 the words have no comma that num2words did not put there.
C14_ScaleWordCommas ==
    \A i \in 1..Len(log) :
        (log[i].format_type = "text" /\ RecRaw(i).t = "float") =>
            LET out == log[i].formatted
            IN  IF RecRaw(i).w >= 1000000
                THEN CommaBeforeScaleWords(out) /\ NoDoubledComma(out)
                ELSE Commas(out) = Commas(num2words(RecRaw(i).sgn, RecRaw(i).w))

\* C15: a read that raised leaves the record's raw value absent and does not end
\* the run: the record is still written, and in words mode the text written is
\* "(Not Available)", the words of an absent or empty raw value.
C15_FailedReadPlaceholder ==
    /\ format_number_as_words(None) = S_NotAvailable
    /\ format_number_as_words(Str(<<>>)) = S_NotAvailable
    /\ \A i \in 1..N :
          ReadFailed(i) =>
             /\ pc = "fatal" => Pos("close_excel") # {}
             /\ (i \in 1..Len(log) /\ log[i].format_type = "text")
                   => log[i].formatted = S_NotAvailable

\* C16: for an absent or empty raw value format_number returns one fixed placeholder
\* under every format spec, and under no format spec does the raw value 0 give that
\* placeholder.
C16_AbsentPlaceholder ==
    /\ format_number(None, None) = S_None
    /\ format_number(PyFloat(1, 0, 0), None) # S_None
    /\ \A i \in 1..Len(log) :
          log[i].format_type = "numeric" =>
             /\ IsBlank(RecRaw(i)) => log[i].formatted = S_None
             /\ RecRaw(i) = PyFloat(1, 0, 0) => log[i].formatted # S_None

\* C17: both formatters return a string for every raw value (absent, number,
\* numeric text, other text) and every format spec, a malformed one included; a
\* raw value r that is not a number gives "(r)" in words and str(r) in numeric mode.
C17_FormattersTotal ==
    \A i \in 1..Len(log) :
        LET raw == RecRaw(i)
            out == log[i].formatted
        IN  /\ out \in Seq(STRING)
            /\ (~IsBlank(raw) /\ ToFloat(raw) = Error) =>
                  out = (IF log[i].format_type = "text"
                         THEN <<"(">> \o PyStr(raw) \o <<")">> ELSE PyStr(raw))

\* The text "abc" went through the numeric formatter with a format spec that has no
\* closing brace
C17_Witness ==
    /\ Len(log) = 1
    /\ log[1].kind = "Wrote"
    /\ RecRaw(1) = Str(abc)
    /\ mappings[1][4] = Str(UnclosedFmt)
    /\ content[Total] = abc

S_1234567 == <<"1", ",", "2", "3", "4", ",", "5", "6", "7">>

S_123456 == <<"1", "2", "3", ",", "4", "5", "6">>

\* s is the digits of n or of n + 1, with a comma before each group of three
GroupedDigitsOf(s, num) ==
    LET digits == SelectSeq(s, LAMBDA ch : ch \in DigitChars)
    IN  /\ s # <<>>
        /\ \A k \in 1..Len(s) :
              IF (Len(s) - k) % 4 = 3 THEN s[k] = "," ELSE s[k] \in DigitChars
        /\ Head(s) # ","
        /\ (Len(digits) > 1 => Head(digits) # "0")
        /\ DigitsVal(digits) \in {num.w, num.w + 1}
        /\ num.c < 50 => DigitsVal(digits) = num.w
        /\ num.c > 50 => DigitsVal(digits) = num.w + 1

\* C18: for a number, format_number without a format spec and with "{:,.0f}" gives
\* the value rounded to an integer, no decimals, a comma between groups of three
\* digits (1234567 gives "1,234,567"); the record (S1, F22, Total, "{:,.0f}") read
\* as 123456.0 prints Wrote and leaves "123,456" at Total.
C18_GroupedInteger ==
    /\ format_number(PyFloat(1, 1234567, 0), None) = S_1234567
    /\ \A i \in 1..Len(log) :
          (mappings[i][4] = Str(CommaFmt) /\ RecRaw(i).t = "float") =>
              LET out == log[i].formatted
                  neg == RecRaw(i).sgn < 0
              IN  /\ out = format_number(RecRaw(i), None)
                  /\ neg <=> Head(out) = "-"
                  /\ GroupedDigitsOf(IF neg THEN Tail(out) ELSE out, RecRaw(i))
    /\ \A i \in 1..Len(log) :
          (mappings[i] = <<S1, F22, Total, Str(CommaFmt)>>
           /\ RecRaw(i) = PyFloat(1, 123456, 0)
           /\ \E k \in PosOf("write", i) : trace[k].r = "none")
          => /\ log[i].kind = "Wrote"
             /\ log[i].formatted = S_123456
             /\ content[Total] = S_123456

\* The record (S1, F22, Total, "{:,.0f}") was written and the file saved
C18_Witness ==
    /\ pc = "done"
    /\ mappings = <<(<<S1, F22, Total, Str(CommaFmt)>>)>>
    /\ log[1].kind = "Wrote"
    /\ disk.content[Total] = S_123456

\* C19: a successful write leaves the bookmark in the document under its name (the
\* other bookmarks as they were), so a later record can write to it again, and a
\* save puts the bookmarks of the document into the file for a later run.
C19_AnchorPreserved ==
    [][/\ (Len(log') = Len(log) + 1 /\ log'[Len(log')].kind = "Wrote")
          => (log'[Len(log')].bookmark \in bookmarks' /\ bookmarks' = bookmarks)
       /\ disk' # disk => disk'.bookmarks = bookmarks]_vars

\* Two records wrote to the same bookmark one after the other, and the saved file
\* still has it
C19_Witness ==
    /\ SavedOk
    /\ Len(log) = 2
    /\ log[1].bookmark = Rent /\ log[2].bookmark = Rent
    /\ log[1].kind = "Wrote" /\ log[2].kind = "Wrote"
    /\ Rent \in disk.bookmarks

\* The records whose cell is key and whose read was made
Readers(key) ==
    {i \in 1..N : <<mappings[i][1], mappings[i][2]>> = key /\ PosOf("read", i) # {}}

\* C20: every (sheet, cell) the mapping names is read once in a run, and every
\* record naming it is formatted from the value of that read.
C20_EachCellReadOnce ==
    Pos("close_excel") # {} =>
        /\ \A i \in 1..N : Cardinality(Readers(<<mappings[i][1], mappings[i][2]>>)) = 1
        /\ \A i \in 1..Len(log) :
              log[i].formatted = Formatted(RecRaw(i), mappings[i][4])

\* The records whose printed line is of the given kind
OfKind(kind) == {i \in 1..Len(log) : log[i].kind = kind}

----------------------------------------------------------------------------
(* Properties of the helpers *)

\* C23: when write_to_bookmark has returned for a bookmark the document has, the
\* file at the same path holds str(value) at the bookmark, with readonly_template
\* true and false alike; the value get_value returned is the value of the cell.
C23_BookmarkPersisted ==
    (helper.t = "write_to_bookmark" /\ pc = "done") =>
        /\ helper.bookmark \in InitialDisk.bookmarks
        /\ disk.content[helper.bookmark] = RawStr(helper.value)
        /\ helper.bookmark \in disk.bookmarks
        /\ HasCell(helper.sheet, helper.cell)
        /\ helper.value = CellValue(helper.sheet, helper.cell)

\* The value of F22 was written through a document opened read-only and is in the
\* file
C23_Witness ==
    /\ helper.t = "write_to_bookmark"
    /\ pc = "done"
    /\ helper.readonly_template
    /\ helper.cell = F22
    /\ disk.content[Rent] = <<"1", "2", "3", "4", "5", "6", ".", "0">>

\* C24: copy_range_as_emf makes at most retry_count attempts; the Excel an attempt
\* started is closed before the next attempt starts and before the function returns
\* or raises; the function returns the path of a .emf file or raises RuntimeError.
C24_EmfAttempts ==
    helper.t = "copy_range_as_emf" =>
        /\ Cardinality(Pos("open_excel")) <= helper.retry_count
        /\ pc \in {"emf_attempt", "emf_returned", "emf_raised"}
              => (helper.running = 0 /\ xl # "running")
        /\ pc = "emf_returned" => helper.result = ".emf"
        /\ pc = "emf_raised" => helper.result = "RuntimeError"

----------------------------------------------------------------------------
(* Properties of the Tk application *)

\* C25: at most one run is in progress at any time: pressing Run while a worker
\* thread is running starts no second worker.
C25_OneRunAtATime == gui.t = "tk" => gui.threads <= 1

\* C26: the user's document is overwritten only after the working copy was saved
\* and its document closed; when the run aborts the user's document is unchanged;
\* on every exit path of the worker the temporary directory is removed and the
\* progress bar stopped.
C26_OriginalAndCleanup ==
    gui.t = "tk" =>
        /\ gui.original # InitialDisk =>
              /\ SavedOk
              /\ \E k \in Pos("close_doc") : trace[k].r = "ok"
        /\ (pc = "gui_exit" /\ gui.message = "Error") => gui.original = InitialDisk
        /\ pc = "gui_exit" =>
              (gui.temp_dir \in {"none", "removed"} /\ gui.progress = "stopped")

\* C27: the box "All bookmarks updated successfully!" is shown only when every
\* record was written to its bookmark: not after a run in which the read or the
\* write of a record failed.
C27_SuccessMessage ==
    (gui.t = "tk" /\ gui.message = "All bookmarks updated successfully!") =>
        \A i \in 1..N : /\ i \in 1..Len(log)
                        /\ log[i].kind = "Wrote"
                        /\ ~ReadFailed(i)

====
